---- MODULE Spec2Model ----
(***************************************************************************)
(* 101ply: console player for the 101.ru online radio (src/main.go).       *)
(*                                                                         *)
(* The model covers the playing loop of main (fetch, compare, Stop,        *)
(* go Play, Sleep), the goroutines it and the hotkey callback spawn (Play, *)
(* Pause, Resume), the signal goroutine (Cleanup) and the URL and interval *)
(* computations of FetchChannelInfo.  The goroutines share go101o without  *)
(* any lock, so every statement that reads or writes go101o or calls the   *)
(* mp3 backend is a step of its own and the steps interleave freely.       *)
(*                                                                         *)
(* Strings are sequences over a small alphabet in which one symbol stands  *)
(* for a substring of the real text that no pattern of the code splits:    *)
(*   "h" = "http:"      "o" = "101.ru"     "c" = "cdn.101.ru"              *)
(*   "v" = "vardata/modules/musicdb/files" "/" = "/"   "a","b" = file names*)
(***************************************************************************)
EXTENDS Integers, Sequences, FiniteSets, TLC

VARIABLES
    Status,        \* go101o.Status
    TrackUid,      \* go101o.TrackUid
    CurrentTrack,  \* go101o.CurrentTrack (TrackUid, PlayURL)
    NextFetch,     \* go101o.NextFetch
    pc,            \* position of the playing loop of main
    trackInfo,     \* local trackInfo of FetchChannelInfo's Try, between its two steps
    s,             \* Sleep: parameter s
    counter,       \* Sleep: local counter
    play,          \* the goroutines started by "go go101o.Play()"
    tog,           \* the goroutines started by the hotkey callback
    sig,           \* position of the signal goroutine
    lastCmd,       \* mp3 backend: the last command it received
    stream,        \* mp3 backend: the URL of the last PlayProcess
    fetches,       \* history: number of FetchChannelInfo calls so far
    fetched,       \* history: outcome of this iteration's fetch
    lastStarted,   \* history: track id of the last fetch that led to a restart
    ticks,         \* history: ticks of the last Sleep
    idle,          \* history: ticks of the last Sleep that saw Status # STATUS_PLAY
    played,        \* history: ticks since the last fetch that saw Status = STATUS_PLAY
    spin,          \* history: parity of the idle ticks beyond MaxIdle
    toggles,       \* history: number of key presses so far
    reply,         \* the answer of http.Get to the request in progress (response, err)
    done           \* history: the controller operation that the last step completed

vars == <<Status, TrackUid, CurrentTrack, NextFetch, pc, trackInfo, s, counter,
          play, tog, sig, lastCmd, stream, fetches, fetched,
          lastStarted, ticks, idle, played, spin, toggles, reply, done>>

\* the history variables, and the answer in progress, that the loop outside of its
\* fetch and Sleep, and the goroutines, leave alone
hist == <<ticks, idle, played, spin, toggles, reply>>

----------------------------------------------------------------------------
(* Program constants                                                       *)

STATUS_PLAY == 256

STATUS_PAUSE == 512

STATUS_STOP == 768

\* NextFetch set by the Catch branch
CatchInterval == 5

\* the clamp band of the remaining time, and the period outside of it
MinDiff == 5

MaxDiff == 1800

ClampInterval == 5

\* margin subtracted from the remaining time
Margin == 3

----------------------------------------------------------------------------
(* Bounds of the model                                                     *)

\* iterations of the playing loop
MaxFetch == 2

\* track ids the server reports are 1..MaxTrack
MaxTrack == 2

\* key presses
MaxToggle == 2

\* idle ticks of one Sleep that the history counts
MaxIdle == 4

\* width of the unsigned timestamps (uint64 in the code)
WordBits == 12

Modulus == 2 ^ WordBits

----------------------------------------------------------------------------
(* FetchChannelInfo: URL normalisation, lines 501-516                      *)

Frag == <<"/", "v", "/">>

Origin == <<"h", "/", "/", "o">>

\* Frag occurs in u at position i
FragAt(u, i) ==
    /\ i >= 1
    /\ i + Len(Frag) - 1 <= Len(u)
    /\ SubSeq(u, i, i + Len(Frag) - 1) = Frag

\* regexp `http\:(.)`: the scheme marker followed by one more character
HasScheme(u) == \E i \in 1..(Len(u) - 1) : u[i] = "h"

RECURSIVE CountFrom(_, _)
\* len(re.FindAllStringSubmatch(u, -1)): leftmost non-overlapping matches from i on
CountFrom(u, i) ==
    IF i > Len(u) THEN 0
    ELSE IF FragAt(u, i) THEN 1 + CountFrom(u, i + Len(Frag))
    ELSE CountFrom(u, i + 1)

CountFrag(u) == CountFrom(u, 1)

\* strings.Replace(u, Frag, "", 1)
RemoveFirst(u) ==
    IF \E i \in 1..Len(u) : FragAt(u, i)
    THEN LET i == CHOOSE k \in 1..Len(u) :
                      FragAt(u, k) /\ \A j \in 1..(k - 1) : ~FragAt(u, j)
         IN  SubSeq(u, 1, i - 1) \o SubSeq(u, i + Len(Frag), Len(u))
    ELSE u

\* line 502-508
Prefixed(filename) ==
    (IF HasScheme(filename) THEN <<>> ELSE Origin) \o filename

\* line 512-516
Collapsed(u) == IF CountFrag(u) = 2 THEN RemoveFirst(u) ELSE u

Normalize(filename) == Collapsed(Prefixed(filename))

----------------------------------------------------------------------------
(* FetchChannelInfo: next fetch period, lines 518-525                      *)

\* uint64 subtraction
USub(a, b) == (a - b) % Modulus

NextIntervalNoMargin(finishSong, serverTime) ==
    LET diff == USub(finishSong, serverTime)
    IN  IF diff < MinDiff \/ diff > MaxDiff THEN ClampInterval ELSE diff

NextIntervalNoClamp(finishSong, serverTime) ==
    USub(finishSong, serverTime) - Margin

NextIntervalFloorInclusive(finishSong, serverTime) ==
    LET diff == USub(finishSong, serverTime)
    IN  IF diff <= MinDiff \/ diff > MaxDiff THEN ClampInterval ELSE diff - Margin

NextInterval(finishSong, serverTime) ==
    LET diff == USub(finishSong, serverTime)
    IN  IF diff < MinDiff \/ diff > MaxDiff THEN ClampInterval ELSE diff - Margin

----------------------------------------------------------------------------
(* Responses of the track endpoint                                         *)

FileOf(id) ==
    IF id = 1 THEN <<"/", "v", "/", "/", "v", "/", "a">>
    ELSE <<"h", "/", "/", "c", "/", "v", "/", "b">>

\* <<finishSong, serverTime>>: 5 seconds of the song left
Timings == {<<1000, 995>>}

Responses ==
    {[trackuid |-> id, filename |-> FileOf(id), finishSong |-> t[1], serverTime |-> t[2]] :
        id \in 1..MaxTrack, t \in Timings}

\* the play URL of track id
UrlOf(id) == Normalize(FileOf(id))

NoInfo == [trackuid |-> 0, filename |-> <<>>, finishSong |-> 0, serverTime |-> 0]

\* no request has been answered yet
NoReply == [seq |-> 0, net |-> "none", code |-> 0, body |-> "none"]

\* status codes of an answer: a success and an error
HttpCodes == {200, 404}

\* bodies of an answer: not JSON, no bytes at all, a JSON document with an empty
\* audio list, a JSON document with a track
Bodies == {"malformed", "empty", "noaudio", "track"}

\* the answers to a request: http.Get returns an error, or a response
Replies ==
    {[net |-> "error", code |-> 0, body |-> "none"]}
    \cup {[net |-> "ok", code |-> c, body |-> b] : c \in HttpCodes, b \in Bodies}

----------------------------------------------------------------------------
(* Goroutines                                                              *)

\* a Play goroutine: its position and its local playUrl
IdlePlay == [pc |-> "idle", url |-> <<>>]

\* the Play goroutine of iteration i of the loop is play[i]
PlaySlots == 1..MaxFetch

\* positions of a goroutine started by the hotkey callback; tog counts the
\* goroutines at each position
TogPcs == {"mute", "setpause", "unmute", "setplay"}

TogCount == tog["mute"] + tog["setpause"] + tog["unmute"] + tog["setplay"]

\* os.Exit has not been called
Alive == sig # "exited"

\* the controller operation that the last step completed, with Status as its
\* last write found it
NoneDone == [op |-> "none", from |-> 0]

----------------------------------------------------------------------------
(* Initial state: the zero value of go101o, the loop about to fetch        *)

Init ==
    /\ Status = 0
    /\ TrackUid = 0
    /\ CurrentTrack = [TrackUid |-> 0, PlayURL |-> <<>>]
    /\ NextFetch = 0
    /\ pc = "fetch"
    /\ trackInfo = NoInfo
    /\ s = 0
    /\ counter = 0
    /\ play = [i \in PlaySlots |-> IdlePlay]
    /\ tog = [p \in TogPcs |-> 0]
    /\ sig = "wait"
    /\ lastCmd = "none"
    /\ stream = <<>>
    /\ fetches = 0
    /\ fetched = "none"
    /\ lastStarted = 0
    /\ ticks = 0
    /\ idle = 0
    /\ played = 0
    /\ spin = 0
    /\ toggles = 0
    /\ reply = NoReply
    /\ done = NoneDone

----------------------------------------------------------------------------
(* The playing loop of main, lines 316-326                                 *)

\* go101o.Sleep(go101o.NextFetch): the call, lines 325 and 577-578
SleepCall ==
    /\ pc' = "sleep"
    /\ s' = NextFetch
    /\ counter' = 0
    /\ ticks' = 0
    /\ idle' = 0
    /\ played' = 0
    /\ spin' = 0
    /\ UNCHANGED <<toggles, reply>>

\* FetchChannelInfo, Try up to line 508: the response parsed, the track stored
FetchTry(resp) ==
    /\ Alive
    /\ pc = "fetch"
    /\ fetches < MaxFetch
    /\ trackInfo' = resp
    /\ CurrentTrack' = [TrackUid |-> resp.trackuid, PlayURL |-> Prefixed(resp.filename)]
    /\ pc' = "fix"
    /\ fetches' = fetches + 1
    /\ ticks' = 0
    /\ idle' = 0
    /\ played' = 0
    /\ spin' = 0
    /\ fetched' = "ok"
    /\ done' = NoneDone
    /\ UNCHANGED <<Status, TrackUid, NextFetch, s, counter, play, tog, sig, lastCmd,
                   stream, lastStarted, toggles, reply>>

\* FetchChannelInfo, Try from line 510 on: the doubled segment, the next period
FetchFix ==
    /\ Alive
    /\ pc = "fix"
    /\ CurrentTrack' = [CurrentTrack EXCEPT !.PlayURL = Collapsed(@)]
    /\ NextFetch' = NextInterval(trackInfo.finishSong, trackInfo.serverTime)
    /\ trackInfo' = NoInfo
    /\ pc' = "compare"
    /\ done' = NoneDone
    /\ UNCHANGED <<Status, TrackUid, s, counter, play, tog, sig, lastCmd, stream,
                   fetches, fetched, lastStarted, hist>>

\* FetchChannelInfo, a panic of Try (before line 495) recovered by Catch
FetchCatch ==
    /\ Alive
    /\ pc = "fetch"
    /\ fetches < MaxFetch
    /\ NextFetch' = CatchInterval
    /\ pc' = "compare"
    /\ fetches' = fetches + 1
    /\ ticks' = 0
    /\ idle' = 0
    /\ played' = 0
    /\ spin' = 0
    /\ fetched' = "fail"
    /\ done' = NoneDone
    /\ UNCHANGED <<Status, TrackUid, CurrentTrack, trackInfo, s, counter, play, tog,
                   sig, lastCmd, stream, lastStarted, toggles, reply>>

\* line 318
TrackChanged == TrackUid # CurrentTrack.TrackUid

\* lines 318-320 and, with no change, 324-325
Compare ==
    /\ Alive
    /\ pc = "compare"
    /\ IF TrackChanged
       THEN /\ pc' = "stop1"
            /\ lastStarted' = CurrentTrack.TrackUid
            /\ UNCHANGED <<s, counter, hist>>
       ELSE /\ SleepCall
            /\ UNCHANGED lastStarted
    /\ done' = NoneDone
    /\ UNCHANGED <<Status, TrackUid, CurrentTrack, NextFetch, trackInfo, play, tog,
                   sig, lastCmd, stream, fetches, fetched>>

\* Stop, lines 570 and 571: mp3.StopProcess()
MainStopProcess ==
    /\ Alive
    /\ pc \in {"stop1", "stop2"}
    /\ lastCmd' = "stop"
    /\ pc' = IF pc = "stop1" THEN "stop2" ELSE "stopset"
    /\ done' = NoneDone
    /\ UNCHANGED <<Status, TrackUid, CurrentTrack, NextFetch, trackInfo, s, counter,
                   play, tog, sig, stream, fetches, fetched, lastStarted, hist>>

\* Stop, line 572
MainStopSet ==
    /\ Alive
    /\ pc = "stopset"
    /\ Status' = STATUS_STOP
    /\ pc' = "go"
    /\ done' = [op |-> "stop", from |-> Status]
    /\ UNCHANGED <<TrackUid, CurrentTrack, NextFetch, trackInfo, s, counter, play, tog,
                   sig, lastCmd, stream, fetches, fetched, lastStarted, hist>>

\* line 322, go go101o.Play(), then lines 324-325
GoPlay ==
    /\ Alive
    /\ pc = "go"
    /\ play' = [play EXCEPT ![fetches] = [IdlePlay EXCEPT !.pc = "geturl"]]
    /\ SleepCall
    /\ done' = NoneDone
    /\ UNCHANGED <<Status, TrackUid, CurrentTrack, NextFetch, trackInfo, tog, sig,
                   lastCmd, stream, fetches, fetched, lastStarted>>

----------------------------------------------------------------------------
(* Sleep, lines 577-588                                                    *)

CountedAlways(st, c) == c + 1

\* lines 581-583
Counted(st, c) == IF st = STATUS_PLAY THEN c + 1 ELSE c

SleepDoneEarly(c, target) == c + 1 >= target

\* line 584
SleepDone(c, target) == c >= target

\* the history of a tick: every tick counts, until MaxIdle idle ticks are
\* counted; further idle ticks only flip spin
TickHistory ==
    /\ played' = IF Status = STATUS_PLAY THEN played + 1 ELSE played
    /\ IF Status = STATUS_PLAY
       THEN ticks' = ticks + 1 /\ UNCHANGED <<idle, spin>>
       ELSE IF idle < MaxIdle
            THEN ticks' = ticks + 1 /\ idle' = idle + 1 /\ UNCHANGED spin
            ELSE spin' = 1 - spin /\ UNCHANGED <<ticks, idle>>
    /\ UNCHANGED <<toggles, reply>>

\* one round of the loop: a second passes, Status is read, the counter compared
Tick ==
    /\ Alive
    /\ pc = "sleep"
    /\ counter' = Counted(Status, counter)
    /\ pc' = IF SleepDone(counter', s) THEN "fetch" ELSE "sleep"
    /\ TickHistory
    /\ done' = NoneDone
    /\ UNCHANGED <<Status, TrackUid, CurrentTrack, NextFetch, trackInfo, s, play, tog,
                   sig, lastCmd, stream, fetches, fetched, lastStarted>>

----------------------------------------------------------------------------
(* Play, lines 538-548, run as a goroutine                                 *)

\* line 539: playUrl := this.CurrentTrack.PlayURL
PlayGetUrl(i) ==
    /\ Alive
    /\ play[i].pc = "geturl"
    /\ play' = [play EXCEPT ![i] = [pc |-> "proc", url |-> CurrentTrack.PlayURL]]
    /\ done' = NoneDone
    /\ UNCHANGED <<Status, TrackUid, CurrentTrack, NextFetch, pc, trackInfo, s, counter,
                   tog, sig, lastCmd, stream, fetches, fetched, lastStarted, hist>>

\* line 540: mp3.PlayProcess(playUrl)
PlayProcess(i) ==
    /\ Alive
    /\ play[i].pc = "proc"
    /\ lastCmd' = "play"
    /\ stream' = play[i].url
    /\ play' = [play EXCEPT ![i] = [pc |-> "uid", url |-> <<>>]]
    /\ done' = NoneDone
    /\ UNCHANGED <<Status, TrackUid, CurrentTrack, NextFetch, pc, trackInfo, s, counter,
                   tog, sig, fetches, fetched, lastStarted, hist>>

\* line 541: this.TrackUid = this.CurrentTrack.TrackUid
PlaySetUid(i) ==
    /\ Alive
    /\ play[i].pc = "uid"
    /\ TrackUid' = CurrentTrack.TrackUid
    /\ play' = [play EXCEPT ![i].pc = "check"]
    /\ done' = NoneDone
    /\ UNCHANGED <<Status, CurrentTrack, NextFetch, pc, trackInfo, s, counter, tog, sig,
                   lastCmd, stream, fetches, fetched, lastStarted, hist>>

PlayBranchAlwaysPlay(st) == "setplay"

\* line 542: if this.Status == STATUS_PAUSE
PlayBranch(st) == IF st = STATUS_PAUSE THEN "mute" ELSE "setplay"

PlayCheck(i) ==
    /\ Alive
    /\ play[i].pc = "check"
    /\ play' = [play EXCEPT ![i].pc = PlayBranch(Status)]
    /\ done' = NoneDone
    /\ UNCHANGED <<Status, TrackUid, CurrentTrack, NextFetch, pc, trackInfo, s, counter,
                   tog, sig, lastCmd, stream, fetches, fetched, lastStarted, hist>>

\* line 543 -> Pause, line 554: mp3.MuteProcess()
PlayMute(i) ==
    /\ Alive
    /\ play[i].pc = "mute"
    /\ lastCmd' = "mute"
    /\ play' = [play EXCEPT ![i].pc = "setpause"]
    /\ done' = NoneDone
    /\ UNCHANGED <<Status, TrackUid, CurrentTrack, NextFetch, pc, trackInfo, s, counter,
                   tog, sig, stream, fetches, fetched, lastStarted, hist>>

\* line 543 -> Pause, line 555, or line 545: the status written, Play returns
PlaySetStatus(i) ==
    /\ Alive
    /\ play[i].pc \in {"setpause", "setplay"}
    /\ Status' = IF play[i].pc = "setpause" THEN STATUS_PAUSE ELSE STATUS_PLAY
    /\ play' = [play EXCEPT ![i] = IdlePlay]
    /\ done' = [op |-> "play", from |-> Status]
    /\ UNCHANGED <<TrackUid, CurrentTrack, NextFetch, pc, trackInfo, s, counter, tog,
                   sig, lastCmd, stream, fetches, fetched, lastStarted, hist>>

----------------------------------------------------------------------------
(* The hotkey callback, lines 404-409, and the goroutines it starts        *)

ToggleTargetPausedOnly(st) == IF st = STATUS_PAUSE THEN "unmute" ELSE "mute"

\* line 405: the first statement of Resume or of Pause
ToggleTarget(st) ==
    IF st = STATUS_STOP \/ st = STATUS_PAUSE THEN "unmute" ELSE "mute"

\* a goroutine of the hotkey callback moves from position p to q
TogMove(p, q) == tog' = [tog EXCEPT ![p] = @ - 1, ![q] = @ + 1]

\* a key press: Status is read and go Resume() or go Pause() is started
Toggle ==
    /\ Alive
    /\ toggles < MaxToggle
    /\ toggles' = toggles + 1
    /\ tog' = [tog EXCEPT ![ToggleTarget(Status)] = @ + 1]
    /\ done' = NoneDone
    /\ UNCHANGED <<Status, TrackUid, CurrentTrack, NextFetch, pc, trackInfo, s, counter,
                   play, sig, lastCmd, stream, fetches, fetched, lastStarted, ticks, idle,
                   played, spin, reply>>

\* Pause, line 554: mp3.MuteProcess()
PauseMute ==
    /\ Alive
    /\ tog["mute"] > 0
    /\ lastCmd' = "mute"
    /\ TogMove("mute", "setpause")
    /\ done' = NoneDone
    /\ UNCHANGED <<Status, TrackUid, CurrentTrack, NextFetch, pc, trackInfo, s, counter,
                   play, sig, stream, fetches, fetched, lastStarted, hist>>

\* Pause, line 555
PauseSet ==
    /\ Alive
    /\ tog["setpause"] > 0
    /\ Status' = STATUS_PAUSE
    /\ tog' = [tog EXCEPT !["setpause"] = @ - 1]
    /\ done' = [op |-> "pause", from |-> Status]
    /\ UNCHANGED <<TrackUid, CurrentTrack, NextFetch, pc, trackInfo, s, counter, play,
                   sig, lastCmd, stream, fetches, fetched, lastStarted, hist>>

\* Resume, line 562: mp3.UnmuteProcess()
ResumeUnmute ==
    /\ Alive
    /\ tog["unmute"] > 0
    /\ lastCmd' = "unmute"
    /\ TogMove("unmute", "setplay")
    /\ done' = NoneDone
    /\ UNCHANGED <<Status, TrackUid, CurrentTrack, NextFetch, pc, trackInfo, s, counter,
                   play, sig, stream, fetches, fetched, lastStarted, hist>>

\* Resume, line 563
ResumeSet ==
    /\ Alive
    /\ tog["setplay"] > 0
    /\ Status' = STATUS_PLAY
    /\ tog' = [tog EXCEPT !["setplay"] = @ - 1]
    /\ done' = [op |-> "resume", from |-> Status]
    /\ UNCHANGED <<TrackUid, CurrentTrack, NextFetch, pc, trackInfo, s, counter, play,
                   sig, lastCmd, stream, fetches, fetched, lastStarted, hist>>

----------------------------------------------------------------------------
(* The signal goroutine, lines 172-177, and Cleanup, lines 333-336         *)

\* lines 174-176: a signal arrives, Cleanup stops the backend (Stop, lines
\* 570-572) and os.Exit(1) ends every goroutine
Cleanup ==
    /\ Alive
    /\ lastCmd' = "stop"
    /\ Status' = STATUS_STOP
    /\ sig' = "exited"
    /\ done' = [op |-> "stop", from |-> Status]
    /\ UNCHANGED <<TrackUid, CurrentTrack, NextFetch, pc, trackInfo, s, counter, play,
                   tog, stream, fetches, fetched, lastStarted, hist>>

----------------------------------------------------------------------------
(* The program                                                             *)

MainLoop ==
    \/ \E resp \in Responses : FetchTry(resp)
    \/ FetchFix
    \/ FetchCatch
    \/ Compare
    \/ MainStopProcess
    \/ MainStopSet
    \/ GoPlay
    \/ Tick

PlayRoutine ==
    \E i \in PlaySlots :
        \/ PlayGetUrl(i)
        \/ PlayProcess(i)
        \/ PlaySetUid(i)
        \/ PlayCheck(i)
        \/ PlayMute(i)
        \/ PlaySetStatus(i)

Hotkey ==
    \/ Toggle
    \/ PauseMute
    \/ PauseSet
    \/ ResumeUnmute
    \/ ResumeSet

Next == MainLoop \/ PlayRoutine \/ Hotkey \/ Cleanup

Spec == Init /\ [][Next]_vars

----------------------------------------------------------------------------
(* Controller operations in progress                                       *)

\* Stop of the loop has issued a command and has not yet written Status
StopInProgress == pc \in {"stop2", "stopset"}

\* Play goroutine i has read its URL and has not yet written Status
PlayInProgress(i) == play[i].pc \notin {"idle", "geturl"}

\* the operations in progress: Stop of the loop, the Play goroutines, and the
\* Pause and Resume goroutines (from the callback's read of Status on)
Busy ==
    (IF StopInProgress THEN 1 ELSE 0)
    + Cardinality({i \in PlaySlots : PlayInProgress(i)})
    + TogCount

\* the program as it would run if Play, Pause, Resume and Stop excluded one another
SerialNext ==
    \/ MainLoop /\ Busy' <= 1
    \/ PlayRoutine /\ Busy' <= 1
    \/ Hotkey /\ Busy' <= 1
    \/ Cleanup /\ Busy' <= 1

SerialSpec == Init /\ [][SerialNext]_vars

----------------------------------------------------------------------------
(* Sleep on its own: the state at a call Sleep(s), then the ticks and the  *)
(* goroutines that write Status while it runs                              *)

\* the largest parameter
MaxTarget == 10

SleepInit ==
    /\ s \in 1..MaxTarget
    /\ NextFetch = s
    /\ Status \in {STATUS_PLAY, STATUS_PAUSE, STATUS_STOP}
    /\ pc = "sleep"
    /\ counter = 0
    /\ CurrentTrack = [TrackUid |-> 1, PlayURL |-> Normalize(FileOf(1))]
    /\ trackInfo = NoInfo
    /\ tog = [p \in TogPcs |-> 0]
    /\ sig = "wait"
    /\ fetches = 1
    /\ fetched = "ok"
    /\ lastStarted = 1
    /\ ticks = 0
    /\ idle = 0
    /\ played = 0
    /\ spin = 0
    /\ toggles = 0
    /\ reply = NoReply
    /\ IF Status = STATUS_STOP
       THEN \* after Stop and go Play()
            /\ TrackUid = 0
            /\ play = [i \in PlaySlots |-> IF i = 1 THEN [IdlePlay EXCEPT !.pc = "geturl"]
                                                    ELSE IdlePlay]
            /\ lastCmd = "stop"
            /\ stream = <<>>
            /\ done = NoneDone
       ELSE \* the track has not changed
            /\ TrackUid = 1
            /\ play = [i \in PlaySlots |-> IdlePlay]
            /\ lastCmd = IF Status = STATUS_PLAY THEN "play" ELSE "mute"
            /\ stream = CurrentTrack.PlayURL
            /\ done = NoneDone

SleepNext == Tick \/ PlayRoutine \/ Hotkey

SleepSpec == SleepInit /\ [][SleepNext]_vars

----------------------------------------------------------------------------
(* Key presses while a track plays and the loop is in Sleep: no Stop and   *)
(* no Play of the loop in between                                          *)

ToggleInit == SleepInit /\ Status = STATUS_PLAY

ToggleNext == Tick \/ Hotkey

ToggleSpec == ToggleInit /\ [][ToggleNext]_vars

----------------------------------------------------------------------------
(* The program with no signal, every goroutine scheduled again and again,  *)
(* and a second passing again and again                                    *)

LiveNext == MainLoop \/ PlayRoutine \/ Hotkey

Scheduled ==
    /\ WF_vars(MainLoop)
    /\ WF_vars(PlayRoutine)
    /\ WF_vars(PauseMute \/ PauseSet \/ ResumeUnmute \/ ResumeSet)

LiveSpec == Init /\ [][LiveNext]_vars /\ Scheduled

----------------------------------------------------------------------------
(* The first iterations of the loop with every timing the server can send: *)
(* any finishSong, and a serverTime before, at or after it                 *)

FinishTimes == 0..(Modulus - 1)

ServerTimes == {0, 995, Modulus - 1}

TimedResponses ==
    {[trackuid |-> 1, filename |-> FileOf(1), finishSong |-> f, serverTime |-> t] :
        f \in FinishTimes, t \in ServerTimes}

IntervalNext ==
    \/ pc = "fetch" /\ \E resp \in TimedResponses : FetchTry(resp)
    \/ FetchFix
    \/ FetchCatch
    \/ Compare
    \/ MainStopProcess
    \/ MainStopSet
    \/ GoPlay
    \/ Tick

IntervalSpec == Init /\ [][IntervalNext]_vars

----------------------------------------------------------------------------
(* The program with the fetch decided by the answer of the server          *)

\* lines 478-495: the conditions under which Try panics
Panics(r) ==
    \/ r.net = "error"                      \* line 479: err of http.Get
    \/ r.body \in {"malformed", "empty"}    \* line 492: err of json.Unmarshal
    \/ r.body = "noaudio"                   \* line 495: Audio[0], index out of range

\* line 478: http.Get answers request number fetches + 1
HttpGet(r) ==
    /\ Alive
    /\ pc = "fetch"
    /\ fetches < MaxFetch
    /\ reply.seq # fetches + 1
    /\ reply' = [seq |-> fetches + 1, net |-> r.net, code |-> r.code, body |-> r.body]
    /\ done' = NoneDone
    /\ UNCHANGED <<Status, TrackUid, CurrentTrack, NextFetch, pc, trackInfo, s, counter,
                   play, tog, sig, lastCmd, stream, fetches, fetched, lastStarted,
                   ticks, idle, played, spin, toggles>>

\* lines 479-508 and Block.Do, lines 590-602: Try panics and Catch runs, or Try
\* stores the track of the answer
FetchReturn ==
    /\ reply.seq = fetches + 1
    /\ IF Panics(reply)
       THEN FetchCatch
       ELSE \E resp \in Responses : FetchTry(resp)

ReplyNext ==
    \/ \E r \in Replies : HttpGet(r)
    \/ FetchReturn
    \/ FetchFix
    \/ Compare
    \/ MainStopProcess
    \/ MainStopSet
    \/ GoPlay
    \/ Tick
    \/ PlayRoutine
    \/ Hotkey

ReplySpec == Init /\ [][ReplyNext]_vars

----------------------------------------------------------------------------
(* One fetch with every filename the server can send                       *)

\* the longest filename, in symbols
MaxLen == 9

UrlAlphabet == {"/", "v", "h"}

Filenames == UNION {[1..n -> UrlAlphabet] : n \in 0..MaxLen}

UrlResponses ==
    {[trackuid |-> 1, filename |-> f, finishSong |-> 1000, serverTime |-> 995] :
        f \in Filenames}

UrlNext ==
    \/ pc = "fetch" /\ \E resp \in UrlResponses : FetchTry(resp)
    \/ FetchFix

UrlSpec == Init /\ [][UrlNext]_vars

----------------------------------------------------------------------------
(* The program from the moment the loop finds a new track id while Status  *)
(* is Paused: the key was pressed once, its Pause has returned, and the    *)
(* loop is about to call Stop                                              *)

RestartInit ==
    /\ Status = STATUS_PAUSE
    /\ lastCmd = "mute"
    /\ pc = "stop1"
    /\ NextFetch = NextInterval(1000, 995)
    /\ trackInfo = NoInfo
    /\ play = [i \in PlaySlots |-> IdlePlay]
    /\ tog = [p \in TogPcs |-> 0]
    /\ sig = "wait"
    /\ fetched = "ok"
    /\ ticks = 0
    /\ idle = 0
    /\ played = 0
    /\ spin = 0
    /\ toggles = 1
    /\ reply = NoReply
    /\ done = NoneDone
    /\ \/ \* the first track: the key was pressed before anything played
          /\ fetches = 1
          /\ \E id \in 1..MaxTrack :
                /\ CurrentTrack = [TrackUid |-> id, PlayURL |-> UrlOf(id)]
                /\ lastStarted = id
          /\ TrackUid = 0
          /\ stream = <<>>
          /\ s = 0
          /\ counter = 0
       \/ \* the second track: the key was pressed during the fetch
          /\ fetches = 2
          /\ CurrentTrack = [TrackUid |-> 2, PlayURL |-> UrlOf(2)]
          /\ lastStarted = 2
          /\ TrackUid = 1
          /\ stream = UrlOf(1)
          /\ s = NextInterval(1000, 995)
          /\ counter = s

RestartSpec == RestartInit /\ [][LiveNext]_vars

----------------------------------------------------------------------------
(* Properties                                                              *)

PlaybackStates == {STATUS_STOP, STATUS_PLAY, STATUS_PAUSE}

\* the step of the loop that decides on the restart (line 318)
Decides == pc = "compare" /\ pc' # "compare"

\* C1: an iteration restarts playback (Stop, go Play, the "now playing" line) if
\* and only if its fetch succeeded with a track id other than that of the last
\* track that led to a restart.
C1_RestartIffNewTrack ==
    [][Decides =>
          ((pc' = "stop1") <=> (fetched = "ok" /\ CurrentTrack.TrackUid # lastStarted))]_vars

\* C2: a failed fetch sets NextFetch to 5 and changes nothing else, and the
\* iteration goes on to its wait with no Stop and no Play.
C2_FailedFetchOnlySetsInterval ==
    [][/\ (pc = "fetch" /\ pc' = "compare") =>
             /\ NextFetch' = 5
             /\ UNCHANGED <<TrackUid, CurrentTrack, Status, lastCmd, stream, play>>
       /\ (Decides /\ fetched = "fail") => pc' = "sleep"]_vars

\* C3: with seconds passing and no key pressed, a failed fetch (the first one
\* included) is followed by the loop coming back to fetch.
C3_FailedFetchRefetches ==
    (pc = "compare" /\ fetched = "fail" /\ toggles = 0)
        ~> (pc = "fetch" \/ toggles > 0)

\* C4: the counter of Sleep is the number of ticks that saw Status Playing, Sleep
\* goes on while the counter is below its target and returns when the counter
\* reaches it, so that it takes target + idle ticks.
C4_SleepCountsPlayingTicks ==
    /\ counter = ticks - idle
    /\ pc = "sleep" => counter < s
    /\ pc = "fetch" => counter = s /\ ticks = s + idle

\* Sleep(10) has returned after 14 ticks, 4 of which saw Status not Playing
C4_Witness == pc = "fetch" /\ s = 10 /\ idle = 4 /\ ticks = 14

\* C5: a key press handled with no other operation in between: from Stopped or
\* Paused it resumes and ends Playing and unmuted, from Playing it pauses and ends
\* Paused and muted.
C5_ToggleInIsolation ==
    done.op \in {"resume", "pause"} =>
        /\ done.from \in {STATUS_STOP, STATUS_PAUSE} =>
              done.op = "resume" /\ Status = STATUS_PLAY /\ lastCmd = "unmute"
        /\ done.from = STATUS_PLAY =>
              done.op = "pause" /\ Status = STATUS_PAUSE /\ lastCmd = "mute"

\* a key press in state Paused has ended in Playing
C5_Witness == done.op = "resume" /\ done.from = STATUS_PAUSE /\ Status = STATUS_PLAY

\* C6: Status is one of Stopped, Playing, Paused, and is Stopped until the first
\* controller operation commands the backend.
C6_StatusIsPlaybackState ==
    /\ Status \in PlaybackStates
    /\ lastCmd = "none" => Status = STATUS_STOP

\* C7: Play run in state Paused starts the stream, mutes it and leaves the state
\* Paused; run in any other state it ends with the state Playing.
C7_PlayKeepsPause ==
    done.op = "play" =>
        /\ stream # <<>>
        /\ done.from = STATUS_PAUSE => Status = STATUS_PAUSE /\ lastCmd = "mute"
        /\ done.from # STATUS_PAUSE => Status = STATUS_PLAY /\ lastCmd = "play"

\* Play has run in state Paused
C7_Witness == done.op = "play" /\ done.from = STATUS_PAUSE /\ Status = STATUS_PAUSE

\* C8: while Status is Playing the last command to the backend was play or unmute.
C8_PlayingImpliesAudible ==
    Status = STATUS_PLAY => lastCmd \in {"play", "unmute"}

\* C9: no two of Play, Pause, Resume and Stop are in progress at the same time.
C9_MutualExclusion == Busy <= 1

\* C10: when the loop comes back to fetch, at least NextFetch ticks (and at least
\* one) have seen Status Playing since the previous fetch.
C10_FetchAfterWait ==
    (pc = "fetch" /\ fetches > 0) => played >= NextFetch /\ played >= 1

\* the loop is back at fetch after a wait that also saw idle ticks
C10_Witness == pc = "fetch" /\ fetches > 0 /\ played = NextFetch /\ idle > 0

\* the period that FetchFix is about to store, at the point where Try has parsed
\* the response
Pending == NextInterval(trackInfo.finishSong, trackInfo.serverTime)

\* the remaining times and the periods listed for them
ClampIn == <<0, 4, 5, 6, 1797, 1800, 1801, 900>>

ClampOut == <<5, 5, 2, 3, 1794, 1797, 5, 897>>

\* C11: on a successful fetch with serverTime <= finishSong and diff their
\* difference, the next period is 5 when diff < 5 or diff > 1800 and diff - 3
\* otherwise; the eight listed differences give the eight listed periods.
C11_IntervalClamp ==
    (pc = "fix" /\ trackInfo.serverTime <= trackInfo.finishSong) =>
          LET diff == trackInfo.finishSong - trackInfo.serverTime
          IN  /\ Pending = IF diff < 5 \/ diff > 1800 THEN 5 ELSE diff - 3
              /\ \A k \in 1..Len(ClampIn) : diff = ClampIn[k] => Pending = ClampOut[k]

\* a response with 1797 seconds left has been parsed, the period is 1794
C11_Witness ==
    /\ pc = "fix"
    /\ trackInfo.serverTime = 995
    /\ trackInfo.finishSong = 995 + 1797
    /\ Pending = 1794

\* C12: the period is never 0: for every finishSong and serverTime, a
\* serverTime after finishSong (the subtraction wraps) included, and after a
\* failed fetch, NextFetch is in 2..1797, and Sleep is not called with 0.
C12_IntervalNeverZero ==
    /\ pc = "fix" => Pending \in 2..1797
    /\ pc = "compare" => NextFetch \in 2..1797
    /\ pc = "sleep" => s \in 2..1797

\* a response whose serverTime is after its finishSong has been parsed, and
\* the wrapped difference is inside the band
C12_Witness ==
    /\ pc = "fix"
    /\ trackInfo.serverTime > trackInfo.finishSong
    /\ Pending > ClampInterval

\* C13 as stated: finishSong = 1000 and serverTime = 995 give the period 5.
C13_FloorGivesFive ==
    /\ <<1000, 995>> \in Timings
    /\ (pc = "fix" /\ trackInfo.finishSong = 1000 /\ trackInfo.serverTime = 995) =>
          Pending = 5

\* C13 amended: finishSong = 1000 and serverTime = 995 (diff = 5, the lowest
\* difference that is not clamped) give the period 5 - 3 = 2.
C13_FloorGivesTwo ==
    /\ <<1000, 995>> \in Timings
    /\ (pc = "fix" /\ trackInfo.finishSong = 1000 /\ trackInfo.serverTime = 995) =>
          Pending = 2
    /\ (pc = "compare" /\ fetched = "ok") => NextFetch = 2

\* the fetch of a response with finishSong = 1000 and serverTime = 995 has
\* returned and the loop is about to compare
C13_Witness == pc = "compare" /\ fetched = "ok" /\ NextFetch = 2 /\ Timings = {<<1000, 995>>}

\* the conditions that make a fetch a failure
FailureCondition(r) ==
    \/ r.net = "error"
    \/ r.code \notin 200..299
    \/ r.body \in {"malformed", "empty"}
    \/ r.body = "noaudio"

\* C14: a network error, a response that is not 2xx, a malformed or empty body
\* and an empty audio list each make the fetch fail, and a failed fetch leaves
\* CurrentTrack as it was.
C14_FailuresKeepSnapshot ==
    [][(pc = "fetch" /\ pc' # "fetch") =>
          /\ FailureCondition(reply) => fetched' = "fail"
          /\ fetched' = "fail" => CurrentTrack' = CurrentTrack]_vars

\* the number of places at which u contains the fragment
Occurrences(u) == Cardinality({i \in 1..Len(u) : FragAt(u, i)})

\* C15: a URL that contains the fragment exactly twice is collapsed to one that
\* contains it exactly once; a URL that contains it zero times, once or three
\* times is left as it is.
C15_CollapseExactlyTwo ==
    pc = "fix" =>
        LET u == CurrentTrack.PlayURL
        IN  /\ Occurrences(u) = 2 => Occurrences(Collapsed(u)) = 1
            /\ Occurrences(u) \in {0, 1, 3} => Collapsed(u) = u

\* C16: a filename with the scheme marker gets no origin, a relative filename
\* gets the origin once, and normalizing a normalized URL changes nothing.
C16_NormalizeIdempotent ==
    /\ pc = "fix" =>
          LET f == trackInfo.filename
          IN  /\ HasScheme(f) => Normalize(f) = Collapsed(f)
              /\ ~HasScheme(f) => Normalize(f) = Collapsed(Origin \o f)
              /\ CurrentTrack.PlayURL = Prefixed(f)
    /\ (pc = "compare" /\ fetched = "ok") =>
          Normalize(CurrentTrack.PlayURL) = CurrentTrack.PlayURL

\* C17: whenever TrackUid is a track id other than 0, and no Play is between
\* starting its stream and recording its track id, the stream last started on
\* the backend is the play URL of that track.
C17_KnownTrackIsStarted ==
    (TrackUid # 0 /\ \A i \in PlaySlots : play[i].pc # "uid") =>
        stream = UrlOf(TrackUid)

\* C18: when no controller operation is in progress and Status is Paused, the
\* backend is silent: its last command was not play and not unmute.
C18_PausedIsSilent ==
    (Busy = 0 /\ Status = STATUS_PAUSE) => lastCmd \notin {"play", "unmute"}

\* C19: after two key presses from Playing, with no Stop or Play of the loop in
\* between and both goroutines returned, Status is Playing again; after one it
\* is Paused.
C19_TwoTogglesRestore ==
    TogCount = 0 =>
        /\ toggles = 1 => Status = STATUS_PAUSE
        /\ toggles = 2 => Status = STATUS_PLAY

\* the Play started by the restart of this iteration has returned
RestartPlayed == pc \in {"sleep", "fetch"} /\ play[fetches].pc = "idle"

\* C20: the loop found a new track while Status was Paused and ran Stop and
\* go Play; once that Play has returned, with no further key press, Status is
\* Paused and the new stream is muted.
C20_PauseSurvivesRestart ==
    (toggles = 1 /\ RestartPlayed /\ lastStarted = CurrentTrack.TrackUid) =>
        /\ Status = STATUS_PAUSE
        /\ lastCmd = "mute"
        /\ stream = CurrentTrack.PlayURL

====
